---------------------------- MODULE Spec2Model ----------------------------
(***************************************************************************)
(* Model of the Google-Sheets import edge function                         *)
(* (supabase/functions/import-google-sheets/index.ts): the cell parsers,   *)
(* the row normalizer, the batch splitter and the request handler that     *)
(* replaces every "Entrada" record of the table "lancamentos".             *)
(*                                                                         *)
(* Text is a sequence of one-character strings.  The JavaScript values     *)
(* undefined and null are the one-element sequences Undefined and Null,    *)
(* which no text can equal because their element is not one character.    *)
(* A number is [neg, units, scale] = (-1)^neg * units / 10^scale with no   *)
(* trailing fractional zero; within the text lengths used here every such  *)
(* decimal is far from the limits of a double, so parseFloat is exact up   *)
(* to the shortest decimal that names the double.  A character that a     *)
(* string of this language cannot hold is written as its code point, e.g. *)
(* "U+00A0".                                                               *)
(***************************************************************************)
EXTENDS Integers, Sequences, FiniteSets, TLC

VARIABLES
    store,      \* table "lancamentos": sequence of [id, rec] in insertion order
    nextId,     \* next identity the store assigns on insert
    pc,         \* per invocation: position of the handler
    method,     \* per invocation: request.method
    values,     \* per invocation: what fetchSheetData returned
    registros,  \* per invocation: buildLancamentosEntrada(values)
    batches,    \* per invocation: chunkArray(registros, 500)
    lote,       \* per invocation: index of the batch whose insert is awaited
    response,   \* per invocation: the Response returned
    linhas,     \* history: the position in values of the row behind each record
    ops,        \* history: the external calls issued so far and how each ended
    preStore,   \* history: the store when the request arrived
    overlap,    \* history: another invocation ran while this one did
    alone,      \* history: no other writer touched the table since the request arrived
    saves       \* number of records saved through the entry form

vars == <<store, nextId, pc, method, values, registros, batches, lote,
          response, linhas, ops, preStore, overlap, alone, saves>>

---------------------------------------------------------------------------
(* Bounds of the model                                                     *)

NumInvocations == 2
MaxPre == 1
MaxNormRows == 1
MaxSaves == 1

Invocations == 1..NumInvocations

---------------------------------------------------------------------------
(* Text                                                                    *)

Undefined == <<"undefined">>
Null == <<"null">>

Digits == {"0", "1", "2", "3", "4", "5", "6", "7", "8", "9"}

\* The white space String.prototype.trim removes: the WhiteSpace and
\* LineTerminator characters of ECMAScript (tab, line feed, vertical tab, form
\* feed, carriage return, space, no-break space, the space separators, line
\* and paragraph separator, byte order mark).
WhiteSpace ==
    {" ", "\t", "\n", "\r", "\f", "U+000B", "U+00A0", "U+1680", "U+2000", "U+2001",
     "U+2002", "U+2003", "U+2004", "U+2005", "U+2006", "U+2007", "U+2008", "U+2009",
     "U+200A", "U+2028", "U+2029", "U+202F", "U+205F", "U+3000", "U+FEFF"}

Min(S) == CHOOSE x \in S : \A y \in S : x <= y
Max(S) == CHOOSE x \in S : \A y \in S : y <= x

\* !value for a string | undefined
Falsy(v) == v = Undefined \/ v = Null \/ v = <<>>

trim(s) ==
    LET solid == {i \in 1..Len(s) : s[i] \notin WhiteSpace}
    IN  IF solid = {} THEN <<>> ELSE SubSeq(s, Min(solid), Max(solid))

\* value?.trim() || fallback
TrimOr(v, fallback) ==
    IF v = Undefined \/ v = Null THEN fallback
    ELSE IF trim(v) = <<>> THEN fallback ELSE trim(v)

\* Length of the longest prefix of s made of digits.
DigitPrefixLen(s) ==
    LET other == {i \in 1..Len(s) : s[i] \notin Digits}
    IN  IF other = {} THEN Len(s) ELSE Min(other) - 1

DigitValue(c) ==
    CASE c = "0" -> 0 [] c = "1" -> 1 [] c = "2" -> 2 [] c = "3" -> 3
      [] c = "4" -> 4 [] c = "5" -> 5 [] c = "6" -> 6 [] c = "7" -> 7
      [] c = "8" -> 8 [] c = "9" -> 9

RECURSIVE DigitsToNat(_)
DigitsToNat(s) ==
    IF s = <<>> THEN 0
    ELSE 10 * DigitsToNat(SubSeq(s, 1, Len(s) - 1)) + DigitValue(s[Len(s)])

DigitChar(d) ==
    CASE d = 0 -> "0" [] d = 1 -> "1" [] d = 2 -> "2" [] d = 3 -> "3"
      [] d = 4 -> "4" [] d = 5 -> "5" [] d = 6 -> "6" [] d = 7 -> "7"
      [] d = 8 -> "8" [] d = 9 -> "9"

RECURSIVE NatToDigits(_)
NatToDigits(n) ==
    IF n < 10 THEN <<DigitChar(n)>>
    ELSE NatToDigits(n \div 10) \o <<DigitChar(n % 10)>>

---------------------------------------------------------------------------
(* Numbers                                                                 *)

Zero == [neg |-> FALSE, units |-> 0, scale |-> 0]
NaN == [neg |-> FALSE, units |-> 0, scale |-> -1]

RECURSIVE Canon(_, _, _)
Canon(neg, units, scale) ==
    IF units = 0 THEN Zero
    ELSE IF scale > 0 /\ units % 10 = 0 THEN Canon(neg, units \div 10, scale - 1)
    ELSE [neg |-> neg, units |-> units, scale |-> scale]

\* Number.parseFloat on text made of digits, "." and "-" (what parseCurrency
\* leaves): an optional sign, digits, an optional "." and digits; the longest
\* such prefix is the number, and NaN when it holds no digit.
parseFloat(s) ==
    LET neg == Len(s) >= 1 /\ s[1] = "-"
        body == IF neg THEN SubSeq(s, 2, Len(s)) ELSE s
        ni == DigitPrefixLen(body)
        int == SubSeq(body, 1, ni)
        rest == SubSeq(body, ni + 1, Len(body))
        dot == Len(rest) >= 1 /\ rest[1] = "."
        tail == IF dot THEN SubSeq(rest, 2, Len(rest)) ELSE <<>>
        frac == SubSeq(tail, 1, DigitPrefixLen(tail))
    IN  IF Len(int) + Len(frac) = 0 THEN NaN
        ELSE Canon(neg, DigitsToNat(int \o frac), Len(frac))

\* Variant: the thousands separators are not removed.
NotDot_KeepAll(c) == TRUE

NotDot(c) == c # "."
KeptByCurrency(c) == c \in Digits \/ c = "." \/ c = "-"

\* s.replace(",", "."): the first comma only
ReplaceFirstComma(s) ==
    LET commas == {i \in 1..Len(s) : s[i] = ","}
    IN  IF commas = {} THEN s ELSE [s EXCEPT ![Min(commas)] = "."]

parseCurrency(value) ==
    IF Falsy(value) THEN Zero
    ELSE LET normalized ==
                 SelectSeq(ReplaceFirstComma(SelectSeq(value, NotDot)), KeptByCurrency)
             parsed == parseFloat(normalized)
         IN  IF parsed # NaN THEN parsed ELSE Zero

---------------------------------------------------------------------------
(* Dates                                                                   *)

\* /^(\d{2})\/(\d{2})\/(\d{4})$/
MatchesDate(t) ==
    /\ Len(t) = 10
    /\ \A i \in {1, 2, 4, 5, 7, 8, 9, 10} : t[i] \in Digits
    /\ t[3] = "/"
    /\ t[6] = "/"

\* Variant: the pattern lacks the closing anchor, /^(\d{2})\/(\d{2})\/(\d{4})/.
parseDate_Unanchored(value) ==
    IF Falsy(value) THEN Null
    ELSE LET trimmed == trim(value)
         IN  IF Len(trimmed) < 10 THEN Null
             ELSE IF ~MatchesDate(SubSeq(trimmed, 1, 10)) THEN Null
             ELSE SubSeq(trimmed, 7, 10) \o <<"-">> \o SubSeq(trimmed, 4, 5)
                      \o <<"-">> \o SubSeq(trimmed, 1, 2)

parseDate(value) ==
    IF Falsy(value) THEN Null
    ELSE LET trimmed == trim(value)
         IN  IF trimmed = <<>> THEN Null
             ELSE IF ~MatchesDate(trimmed) THEN Null
             ELSE SubSeq(trimmed, 7, 10) \o <<"-">> \o SubSeq(trimmed, 4, 5)
                      \o <<"-">> \o SubSeq(trimmed, 1, 2)

---------------------------------------------------------------------------
(* Notes                                                                   *)

\* Variant: without the final "|| null", two empty texts give the empty text.
buildObservacao_NoNull(categoria, parcela) ==
    LET categoriaText == TrimOr(categoria, <<>>)
        parcelaText == TrimOr(parcela, <<>>)
    IN  IF categoriaText # <<>> /\ parcelaText # <<>>
        THEN categoriaText \o <<" ", "/", " ">> \o parcelaText
        ELSE IF categoriaText # <<>> THEN categoriaText
        ELSE parcelaText

buildObservacao(categoria, parcela) ==
    LET categoriaText == TrimOr(categoria, <<>>)
        parcelaText == TrimOr(parcela, <<>>)
    IN  IF categoriaText # <<>> /\ parcelaText # <<>>
        THEN categoriaText \o <<" ", "/", " ">> \o parcelaText
        ELSE IF categoriaText # <<>> THEN categoriaText
        ELSE IF parcelaText # <<>> THEN parcelaText
        ELSE Null

---------------------------------------------------------------------------
(* The normalizer                                                          *)

MinCells == 22

SemIdentificacao ==
    <<"S", "e", "m", " ", "i", "d", "e", "n", "t", "i", "f", "i", "c", "a",
      "c", "a", "o">>

\* row[j], j counted from 0 as in the source
Cell(row, j) == IF j < Len(row) THEN row[j + 1] ELSE Undefined

\* A row that is undefined in the array: a row of one undefined cell.
AbsentRow == <<Undefined>>

\* if (!row || row.length < 22) continue;
RowTooShort(row) == row = AbsentRow \/ Len(row) < MinCells

\* Variant: the second guard joins its tests with && instead of ||.
RowKept_Both(row) ==
    /\ ~RowTooShort(row)
    /\ ~(parseDate(Cell(row, 4)) = Null /\ parseCurrency(Cell(row, 14)) = Zero)

\* The two guards of the loop body: the row is kept and yields a record.
RowKept(row) ==
    /\ ~RowTooShort(row)
    /\ parseDate(Cell(row, 4)) # Null
    /\ parseCurrency(Cell(row, 14)) # Zero

\* Variant: every record is due, whatever its payment-date cell holds.
StatusOf_AlwaysDue(dataBaixa) == "A Vencer"

StatusOf(dataBaixa) == IF dataBaixa # Null THEN "Pago" ELSE "A Vencer"

\* Variant: the discount is attached whatever its value.
AttachDesconto_Always(registro, descPontual) == registro @@ [desc_pontual |-> descPontual]

AttachDesconto(registro, descPontual) ==
    IF descPontual # Zero
    THEN registro @@ [desc_pontual |-> descPontual]
    ELSE registro

BuildRegistro(row) ==
    LET valorOriginal == parseCurrency(Cell(row, 14))
        dataVencimento == parseDate(Cell(row, 4))
        dataBaixa == parseDate(Cell(row, 5))
        status == StatusOf(dataBaixa)
        registro ==
            [data |-> dataVencimento,
             tipo |-> "Entrada",
             cliente_fornecedor |-> TrimOr(Cell(row, 0), SemIdentificacao),
             descricao |-> TrimOr(Cell(row, 12), <<>>),
             valor |-> valorOriginal,
             status |-> status,
             unidade |-> TrimOr(Cell(row, 21), Null),
             obs |-> buildObservacao(Cell(row, 11), Cell(row, 13)),
             datapag |-> dataBaixa,
             aluno |-> TrimOr(Cell(row, 3), Null),
             parcel |-> TrimOr(Cell(row, 13), Null)]
        descPontual == parseCurrency(Cell(row, 16))
    IN  AttachDesconto(registro, descPontual)

\* fetchSheetData returns an array or throws, so !values is never true here.
\* The positions in vals (counted from 1) of the rows the loop pushes a record
\* for, in the order it visits them.
\* Variant: the first row is not set aside.
KeptPositions_WithFirstRow(vals) ==
    LET Kept(p) == RowKept(vals[p])
    IN  SelectSeq([j \in 1..Len(vals) |-> j], Kept)

KeptPositions(vals) ==
    IF Len(vals) <= 1 THEN <<>>
    ELSE LET Kept(p) == RowKept(vals[p])
         IN  SelectSeq([j \in 1..(Len(vals) - 1) |-> j + 1], Kept)

buildLancamentosEntrada(vals) ==
    LET kept == KeptPositions(vals)
    IN  [i \in 1..Len(kept) |-> BuildRegistro(vals[kept[i]])]

---------------------------------------------------------------------------
(* The batch splitter                                                      *)

BatchSize == 500

\* items.slice(a, b), a and b counted from 0
Slice(items, a, b) == SubSeq(items, a + 1, IF b < Len(items) THEN b ELSE Len(items))

RECURSIVE ChunkLoop(_, _, _, _)
ChunkLoop(items, size, i, chunks) ==
    IF i < Len(items)
    THEN ChunkLoop(items, size, i + size, Append(chunks, Slice(items, i, i + size)))
    ELSE chunks

\* Variant: the loop stops when a full batch no longer fits (i + size <= length).
chunkArray_DropTail(items, size) ==
    IF Len(items) <= size THEN <<items>>
    ELSE [c \in 1..(Len(items) \div size) |-> Slice(items, (c - 1) * size, c * size)]

chunkArray(items, size) ==
    IF Len(items) <= size THEN <<items>> ELSE ChunkLoop(items, size, 0, <<>>)

---------------------------------------------------------------------------
(* The store: table "lancamentos"                                          *)

IsEntrada(e) == e.rec.tipo = "Entrada"
NotEntrada(e) == e.rec.tipo # "Entrada"

\* Variant: the filter names a kind no record has, so nothing is deleted.
DeleteEntrada_None(st) == SelectSeq(st, LAMBDA e : e.rec.tipo # "entrada")

\* Variant: the delete carries no filter and empties the table.
DeleteEntrada_All(st) == <<>>

\* supabase.from("lancamentos").delete().eq("tipo", "Entrada")
DeleteEntrada(st) == SelectSeq(st, NotEntrada)

\* supabase.from("lancamentos").insert(batch): the store assigns the identities;
\* "by" records the writer of the entry.
InsertBatch(st, batch, id0) ==
    st \o [j \in 1..Len(batch) |-> [id |-> id0 + j - 1, rec |-> batch[j], by |-> "import"]]

Entradas(st) == SelectSeq(st, IsEntrada)
Recs(st) == [j \in 1..Len(st) |-> st[j].rec]
Ids(st) == {st[j].id : j \in 1..Len(st)}

---------------------------------------------------------------------------
(* Responses                                                               *)

NoResponse == [status |-> 0]
PreflightResponse == [status |-> 200, body |-> "ok"]
MethodNotAllowed == [status |-> 405, success |-> FALSE, message |-> "Method not allowed"]
SuccessResponse(n) ==
    [status |-> 200, success |-> TRUE, message |-> "Importacao concluida",
     total_importado |-> n]
FailureResponse(msg) == [status |-> 500, success |-> FALSE, message |-> msg]

\* An external call: "fetch", "delete" or "insert" (of batch n), and its result.
Op(name, n) == [op |-> name, n |-> n, res |-> "pending"]
Ended(log, res) == [log EXCEPT ![Len(log)].res = res]
Issue(log, res, name, n) == Append(Ended(log, res), Op(name, n))

---------------------------------------------------------------------------
(* Inputs                                                                  *)

SeqsUpTo(S, n) == UNION {[1..m -> S] : m \in 0..n}

\* A row of n cells, empty but for the cells given (indices counted from 0).
MkRow(n, cells) ==
    [j \in 1..n |-> IF (j - 1) \in DOMAIN cells THEN cells[j - 1] ELSE <<>>]

D_15_03_2024 == <<"1", "5", "/", "0", "3", "/", "2", "0", "2", "4">>
D_01_04_2024 == <<"0", "1", "/", "0", "4", "/", "2", "0", "2", "4">>
D_Iso == <<"2", "0", "2", "4", "-", "0", "3", "-", "1", "5">>
A_150_00 == <<"1", "5", "0", ",", "0", "0">>
A_1_234_56 == <<"1", ".", "2", "3", "4", ",", "5", "6">>
A_0 == <<"0">>
A_10_00 == <<"1", "0", ",", "0", "0">>
T_Mensalidade == <<"M", "e", "n", "s", "a", "l", "i", "d", "a", "d", "e">>
T_2_12 == <<"2", "/", "1", "2">>
T_Ana == <<"A", "n", "a">>
T_Valor == <<"V", "a", "l", "o", "r">>
T_Vencimento == <<"V", "e", "n", "c", "i", "m", "e", "n", "t", "o">>

Header == MkRow(22, 4 :> T_Vencimento @@ 14 :> T_Valor)

RowDue ==
    MkRow(22, 0 :> T_Ana @@ 4 :> D_15_03_2024 @@ 11 :> T_Mensalidade
              @@ 13 :> T_2_12 @@ 14 :> A_150_00)
RowPaid ==
    MkRow(22, 4 :> D_01_04_2024 @@ 5 :> D_15_03_2024 @@ 14 :> A_1_234_56
              @@ 16 :> A_10_00)
RowZero == MkRow(22, 0 :> T_Ana @@ 4 :> D_15_03_2024 @@ 14 :> A_0)
RowShort == MkRow(10, 0 :> T_Ana @@ 4 :> D_15_03_2024)
RowBadDate == MkRow(22, 0 :> T_Ana @@ 4 :> D_Iso @@ 14 :> A_150_00)


\* A sheet of n valid rows, told apart by their amounts 1, 2, ..., n.
BigRow(r) == MkRow(22, 4 :> D_15_03_2024 @@ 14 :> NatToDigits(r))
BigSheet(n) == <<Header>> \o [r \in 1..n |-> BigRow(r)]
\* A sheet whose rows are all excluded.
ExcludedSheet == <<Header, RowZero, RowShort, RowBadDate>>

\* What fetchSheetData returns: no row, a header alone, excluded rows only,
\* one and two valid rows.
Sheets == {<<>>, <<Header>>, ExcludedSheet, <<Header, RowDue>>, <<Header, RowPaid, RowDue>>}

\* A sheet of more than one batch: 1,200 valid rows.
BigSheets == {BigSheet(2 * BatchSize + 200)}

PreSaida ==
    [data |-> <<"2", "0", "2", "4", "-", "0", "1", "-", "1", "0">>,
     tipo |-> "Saida", unidade |-> <<"A">>, cliente_fornecedor |-> <<"F">>,
     descricao |-> <<"x">>, valor |-> [neg |-> FALSE, units |-> 80, scale |-> 0],
     status |-> "Pago", obs |-> <<>>, aluno |-> Null, parcel |-> Null,
     desc_pontual |-> Null]
PreEntrada ==
    [data |-> <<"2", "0", "2", "4", "-", "0", "1", "-", "1", "1">>,
     tipo |-> "Entrada", unidade |-> <<"A">>, cliente_fornecedor |-> <<"C">>,
     descricao |-> <<"y">>, valor |-> [neg |-> FALSE, units |-> 90, scale |-> 0],
     status |-> "A Vencer", obs |-> <<>>, aluno |-> Null, parcel |-> Null,
     desc_pontual |-> Null]

PrePool == {PreSaida, PreEntrada}
InitStores ==
    {[j \in 1..Len(rs) |-> [id |-> j, rec |-> rs[j], by |-> "form"]] :
        rs \in SeqsUpTo(PrePool, MaxPre)}

Methods == {"POST", "OPTIONS", "GET", "DELETE"}
FetchFailures == {"status", "values", "network"}

---------------------------------------------------------------------------
(* The request handler                                                     *)

Running(j) == pc[j] \in {"fetch", "delete", "insert"}

\* No request has arrived.
NoRequest ==
    /\ nextId = Len(store) + 1
    /\ pc = [i \in Invocations |-> "idle"]
    /\ method = [i \in Invocations |-> ""]
    /\ values = [i \in Invocations |-> <<>>]
    /\ registros = [i \in Invocations |-> <<>>]
    /\ batches = [i \in Invocations |-> <<>>]
    /\ lote = [i \in Invocations |-> 0]
    /\ response = [i \in Invocations |-> NoResponse]
    /\ linhas = [i \in Invocations |-> <<>>]
    /\ ops = [i \in Invocations |-> <<>>]
    /\ preStore = [i \in Invocations |-> <<>>]
    /\ overlap = [i \in Invocations |-> FALSE]
    /\ alone = [i \in Invocations |-> TRUE]
    /\ saves = 0

Init == store \in InitStores /\ NoRequest

\* The table holds one record of each kind.
BigInitStore ==
    <<[id |-> 1, rec |-> PreSaida, by |-> "form"], [id |-> 2, rec |-> PreEntrada, by |-> "form"]>>

InitBig == store = BigInitStore /\ NoRequest

\* Invocation i (0: the entry form) writes the table: every other invocation
\* whose request has arrived is no longer its only writer.
OnlyWriter(i) == [k \in Invocations |-> alone[k] /\ (k = i \/ pc[k] = "idle")]

Finish(i, r) ==
    /\ pc' = [pc EXCEPT ![i] = "done"]
    /\ response' = [response EXCEPT ![i] = r]

\* Variant: only GET is rejected; any other method but OPTIONS runs the import.
Receive_OnlyGetRejected(i, m) ==
    /\ pc[i] = "idle"
    /\ method' = [method EXCEPT ![i] = m]
    /\ preStore' = [preStore EXCEPT ![i] = store]
    /\ IF m = "OPTIONS" THEN Finish(i, PreflightResponse) /\ UNCHANGED <<ops, overlap>>
       ELSE IF m = "GET" THEN Finish(i, MethodNotAllowed) /\ UNCHANGED <<ops, overlap>>
       ELSE /\ pc' = [pc EXCEPT ![i] = "fetch"]
            /\ ops' = [ops EXCEPT ![i] = <<Op("fetch", 0)>>]
            /\ overlap' = [j \in Invocations |->
                             IF j = i THEN \E h \in Invocations : Running(h)
                             ELSE overlap[j] \/ Running(j)]
            /\ UNCHANGED response
    /\ UNCHANGED <<store, nextId, values, registros, batches, lote, linhas, alone, saves>>

\* A request arrives; a POST runs up to the await of fetch(url).
Receive(i, m) ==
    /\ pc[i] = "idle"
    /\ method' = [method EXCEPT ![i] = m]
    /\ preStore' = [preStore EXCEPT ![i] = store]
    /\ IF m = "OPTIONS" THEN Finish(i, PreflightResponse) /\ UNCHANGED <<ops, overlap>>
       ELSE IF m # "POST" THEN Finish(i, MethodNotAllowed) /\ UNCHANGED <<ops, overlap>>
       ELSE /\ pc' = [pc EXCEPT ![i] = "fetch"]
            /\ ops' = [ops EXCEPT ![i] = <<Op("fetch", 0)>>]
            /\ overlap' = [j \in Invocations |->
                             IF j = i THEN \E h \in Invocations : Running(h)
                             ELSE overlap[j] \/ Running(j)]
            /\ UNCHANGED response
    /\ UNCHANGED <<store, nextId, values, registros, batches, lote, linhas, alone, saves>>

\* Variant: a failed fetch is taken for an empty sheet and the run goes on.
FetchFail_AsEmpty(i, why) ==
    /\ pc[i] = "fetch"
    /\ pc' = [pc EXCEPT ![i] = "delete"]
    /\ ops' = [ops EXCEPT ![i] = Issue(@, why, "delete", 0)]
    /\ UNCHANGED <<store, nextId, method, values, registros, batches, lote, response,
                   linhas, preStore, overlap, alone, saves>>

\* fetchSheetData throws: the status is not ok, the body holds no "values"
\* array, or the fetch itself fails.
FetchFail(i, why) ==
    /\ pc[i] = "fetch"
    /\ ops' = [ops EXCEPT ![i] = Ended(@, why)]
    /\ Finish(i, FailureResponse(why))
    /\ UNCHANGED <<store, nextId, method, values, registros, batches, lote, linhas,
                   preStore, overlap, alone, saves>>

\* buildLancamentosEntrada and KeptPositions, worked out once for the sheets
\* above and looked up for them.
AllSheets == Sheets \cup BigSheets
RegistrosOf == [sheet \in AllSheets |-> buildLancamentosEntrada(sheet)]
LinhasOf == [sheet \in AllSheets |-> KeptPositions(sheet)]

Normalized(sheet) ==
    IF sheet \in AllSheets THEN RegistrosOf[sheet] ELSE buildLancamentosEntrada(sheet)
NormalizedFrom(sheet) ==
    IF sheet \in AllSheets THEN LinhasOf[sheet] ELSE KeptPositions(sheet)

\* fetchSheetData returns the rows; they are normalized and the delete is issued.
FetchOk(i, sheet) ==
    /\ pc[i] = "fetch"
    /\ values' = [values EXCEPT ![i] = sheet]
    /\ registros' = [registros EXCEPT ![i] = Normalized(sheet)]
    /\ linhas' = [linhas EXCEPT ![i] = NormalizedFrom(sheet)]
    /\ pc' = [pc EXCEPT ![i] = "delete"]
    /\ ops' = [ops EXCEPT ![i] = Issue(@, "ok", "delete", 0)]
    /\ UNCHANGED <<store, nextId, method, batches, lote, response, preStore, overlap, alone, saves>>

\* Variant: deleteError is not looked at and the inserts follow.
DeleteFail_Ignored(i) ==
    /\ pc[i] = "delete"
    /\ IF Len(registros[i]) > 0
       THEN /\ batches' = [batches EXCEPT ![i] = chunkArray(registros[i], BatchSize)]
            /\ lote' = [lote EXCEPT ![i] = 1]
            /\ pc' = [pc EXCEPT ![i] = "insert"]
            /\ ops' = [ops EXCEPT ![i] = Issue(@, "error", "insert", 1)]
            /\ UNCHANGED response
       ELSE /\ ops' = [ops EXCEPT ![i] = Ended(@, "error")]
            /\ Finish(i, SuccessResponse(Len(registros[i])))
            /\ UNCHANGED <<batches, lote>>
    /\ UNCHANGED <<store, nextId, method, values, registros, linhas, preStore, overlap, alone, saves>>

\* The delete returns an error: the store did not change.
DeleteFail(i) ==
    /\ pc[i] = "delete"
    /\ ops' = [ops EXCEPT ![i] = Ended(@, "error")]
    /\ Finish(i, FailureResponse("Falha ao apagar"))
    /\ UNCHANGED <<store, nextId, method, values, registros, batches, lote, linhas,
                   preStore, overlap, alone, saves>>

\* Variant: the batches are cut and inserted without looking at registros.length.
DeleteOk_NoLengthCheck(i) ==
    /\ pc[i] = "delete"
    /\ store' = DeleteEntrada(store)
    /\ batches' = [batches EXCEPT ![i] = chunkArray(registros[i], BatchSize)]
    /\ lote' = [lote EXCEPT ![i] = 1]
    /\ pc' = [pc EXCEPT ![i] = "insert"]
    /\ ops' = [ops EXCEPT ![i] = Issue(@, "ok", "insert", 1)]
    /\ alone' = OnlyWriter(i)
    /\ UNCHANGED <<nextId, method, values, registros, response, linhas, preStore, overlap, saves>>

\* The delete succeeds; the batches are cut and the first insert is issued, or
\* with no record the run ends.
DeleteOk(i) ==
    /\ pc[i] = "delete"
    /\ store' = DeleteEntrada(store)
    /\ IF Len(registros[i]) > 0
       THEN /\ batches' = [batches EXCEPT ![i] = chunkArray(registros[i], BatchSize)]
            /\ lote' = [lote EXCEPT ![i] = 1]
            /\ pc' = [pc EXCEPT ![i] = "insert"]
            /\ ops' = [ops EXCEPT ![i] = Issue(@, "ok", "insert", 1)]
            /\ UNCHANGED response
       ELSE /\ ops' = [ops EXCEPT ![i] = Ended(@, "ok")]
            /\ Finish(i, SuccessResponse(Len(registros[i])))
            /\ UNCHANGED <<batches, lote>>
    /\ alone' = OnlyWriter(i)
    /\ UNCHANGED <<nextId, method, values, registros, linhas, preStore, overlap, saves>>

\* Variant: a failed batch is skipped and the loop goes on to the next one.
InsertFail_Continue(i) ==
    /\ pc[i] = "insert"
    /\ IF lote[i] < Len(batches[i])
       THEN /\ lote' = [lote EXCEPT ![i] = @ + 1]
            /\ ops' = [ops EXCEPT ![i] = Issue(@, "error", "insert", lote[i] + 1)]
            /\ UNCHANGED <<pc, response>>
       ELSE /\ ops' = [ops EXCEPT ![i] = Ended(@, "error")]
            /\ Finish(i, FailureResponse("Falha ao inserir"))
            /\ UNCHANGED lote
    /\ UNCHANGED <<store, nextId, method, values, registros, batches, linhas,
                   preStore, overlap, alone, saves>>

\* The insert of the awaited batch returns an error: no record of it is stored.
InsertFail(i) ==
    /\ pc[i] = "insert"
    /\ ops' = [ops EXCEPT ![i] = Ended(@, "error")]
    /\ Finish(i, FailureResponse("Falha ao inserir"))
    /\ UNCHANGED <<store, nextId, method, values, registros, batches, lote, linhas,
                   preStore, overlap, alone, saves>>

\* The insert of the awaited batch succeeds; the next one is issued, or the run ends.
InsertOk(i) ==
    /\ pc[i] = "insert"
    /\ store' = InsertBatch(store, batches[i][lote[i]], nextId)
    /\ nextId' = nextId + Len(batches[i][lote[i]])
    /\ IF lote[i] < Len(batches[i])
       THEN /\ lote' = [lote EXCEPT ![i] = @ + 1]
            /\ ops' = [ops EXCEPT ![i] = Issue(@, "ok", "insert", lote[i] + 1)]
            /\ UNCHANGED <<pc, response>>
       ELSE /\ ops' = [ops EXCEPT ![i] = Ended(@, "ok")]
            /\ Finish(i, SuccessResponse(Len(registros[i])))
            /\ UNCHANGED lote
    /\ alone' = OnlyWriter(i)
    /\ UNCHANGED <<method, values, registros, batches, linhas, preStore, overlap, saves>>

\* LancamentoForm.handleSave: the entry form inserts one record, at any moment.
FormSave(rec) ==
    /\ saves < MaxSaves
    /\ store' = Append(store, [id |-> nextId, rec |-> rec, by |-> "form"])
    /\ nextId' = nextId + 1
    /\ saves' = saves + 1
    /\ alone' = OnlyWriter(0)
    /\ UNCHANGED <<pc, method, values, registros, batches, lote, response, linhas,
                   ops, preStore, overlap>>

Next ==
    \/ \E rec \in PrePool : FormSave(rec)
    \/ \E i \in Invocations :
        \/ \E m \in Methods : Receive(i, m)
        \/ \E why \in FetchFailures : FetchFail(i, why)
        \/ \E sheet \in Sheets : FetchOk(i, sheet)
        \/ DeleteFail(i)
        \/ DeleteOk(i)
        \/ InsertFail(i)
        \/ InsertOk(i)

Spec == Init /\ [][Next]_vars

\* The same handler and form, given the sheets of more than one batch.
NextBig ==
    \/ FormSave(PreEntrada)
    \/ \E i \in Invocations :
        \/ Receive(i, "POST")
        \/ FetchFail(i, "status")
        \/ \E sheet \in BigSheets : FetchOk(i, sheet)
        \/ DeleteFail(i)
        \/ DeleteOk(i)
        \/ InsertFail(i)
        \/ InsertOk(i)

SpecBig == InitBig /\ [][NextBig]_vars

---------------------------------------------------------------------------
(* Properties of one invocation                                            *)

RECURSIVE Flatten(_)
Flatten(ss) == IF ss = <<>> THEN <<>> ELSE Head(ss) \o Flatten(Tail(ss))

CeilDiv(n, d) == (n + d - 1) \div d

IsInsert(o) == o.op = "insert"
InsertOps(i) == SelectSeq(ops[i], IsInsert)
FetchFailed(i) == Len(ops[i]) >= 1 /\ ops[i][1].res \in FetchFailures
FetchSucceeded(i) == Len(ops[i]) >= 1 /\ ops[i][1].res = "ok"
DeleteFailed(i) == \E j \in 1..Len(ops[i]) : ops[i][j].op = "delete" /\ ops[i][j].res = "error"
DeleteSucceeded(i) == \E j \in 1..Len(ops[i]) : ops[i][j].op = "delete" /\ ops[i][j].res = "ok"
\* The batches whose insert returned an error.
FailedBatches(i) == {ops[i][j].n : j \in {h \in 1..Len(ops[i]) : ops[i][h].op = "insert" /\ ops[i][h].res = "error"}}
IsFailure(r) == r.status = 500 /\ r.success = FALSE
Succeeded(i) == pc[i] = "done" /\ method[i] = "POST" /\ response[i].status = 200

\* C1: when the category delete returns an error, no insert is issued, the
\* response is a failure (success = false, HTTP 500), and the store, when no
\* other writer touched it meanwhile, is what it was when the request arrived.
C1_DeleteErrorAborts ==
    \A i \in Invocations :
        DeleteFailed(i) =>
            /\ pc[i] = "done"
            /\ InsertOps(i) = <<>>
            /\ alone[i] => store = preStore[i]
            /\ IsFailure(response[i])

C1_Witness ==
    \E i \in Invocations :
        /\ pc[i] = "done"
        /\ alone[i]
        /\ DeleteFailed(i)
        /\ Len(registros[i]) > 0
        /\ Entradas(preStore[i]) # <<>>

\* C2: when the insert of batch k fails, no later batch is attempted and the
\* response is a failure; when no other writer touched the store meanwhile,
\* its records of the category are those of batches 1..k-1: with 1,200
\* records and a failing second batch, the first 500 records.
C2_InsertErrorAborts ==
    \A i \in Invocations :
        \A k \in FailedBatches(i) :
            /\ pc[i] = "done"
            /\ \A j \in 1..Len(ops[i]) : ops[i][j].op = "insert" => ops[i][j].n <= k
            /\ alone[i] => Recs(Entradas(store)) = Flatten(SubSeq(batches[i], 1, k - 1))
            /\ IsFailure(response[i])
            /\ (alone[i] /\ Len(registros[i]) = 1200 /\ k = 2) =>
                   Recs(Entradas(store)) = SubSeq(registros[i], 1, 500)

C2_Witness ==
    \E i \in Invocations :
        /\ pc[i] = "done"
        /\ alone[i]
        /\ Len(registros[i]) = 1200
        /\ FailedBatches(i) = {2}
        /\ Len(Entradas(store)) = 500

\* b cuts items into ceil(n/500) batches of 500, the last of 1 to 500.
Partitions(b, items) ==
    /\ Len(b) = CeilDiv(Len(items), 500)
    /\ \A c \in 1..(Len(b) - 1) : Len(b[c]) = 500
    /\ Len(b[Len(b)]) \in 1..500
    /\ Flatten(b) = items

\* Lengths around the multiples of the batch size.
ChunkSizes == {1, 2, 499, 500, 501, 999, 1000, 1001, 1200}
Numbered(n) == [j \in 1..n |-> j]
ChunkedRight == \A n \in ChunkSizes : Partitions(chunkArray(Numbered(n), BatchSize), Numbered(n))

\* C3: a non-empty normalized sequence of n records is cut into ceil(n/500)
\* batches, each of 500 records but the last, which holds 1 to 500; a run that
\* succeeds has issued one insert per batch, in order, and the batches put end
\* to end are the normalized sequence.  The same holds of sequences of the
\* lengths around 500 and 1,000 cut by chunkArray.
C3_BatchesPartition ==
    /\ ChunkedRight
    /\ \A i \in Invocations :
        (pc[i] \in {"insert", "done"} /\ Len(registros[i]) > 0 /\ InsertOps(i) # <<>>) =>
            LET ins == InsertOps(i)
            IN  /\ Partitions(batches[i], registros[i])
                /\ \A j \in 1..Len(ins) : ins[j].n = j
                /\ Succeeded(i) => Len(ins) = CeilDiv(Len(registros[i]), 500)

C3_Witness ==
    \E i \in Invocations :
        /\ Succeeded(i)
        /\ Len(registros[i]) = 1200
        /\ [c \in 1..Len(batches[i]) |-> Len(batches[i][c])] = <<500, 500, 200>>
        /\ Len(InsertOps(i)) = 3

\* C4: when the fetch returns a non-success status or a body without a
\* "values" array, neither the delete nor an insert is issued, the response is
\* a failure, and the store, when no other writer touched it meanwhile, is
\* unchanged.
C4_FetchErrorAborts ==
    \A i \in Invocations :
        FetchFailed(i) =>
            /\ pc[i] = "done"
            /\ Len(ops[i]) = 1
            /\ alone[i] => store = preStore[i]
            /\ IsFailure(response[i])

C4_Witness ==
    \E i \in Invocations :
        /\ pc[i] = "done"
        /\ alone[i]
        /\ FetchFailed(i)
        /\ ops[i][1].res = "values"
        /\ Entradas(preStore[i]) # <<>>

\* C5: after a run in which the fetch, the delete and every insert succeeded
\* and no other writer touched the store,
\* the category's records in the store are the normalized records in source
\* order, no record of the category from before the run remains, and the
\* response is HTTP 200 with a count equal to the number of records written.
C5_ReplaceOnSuccess ==
    \A i \in Invocations :
        (Succeeded(i) /\ alone[i]) =>
            /\ Recs(Entradas(store)) = registros[i]
            /\ Ids(Entradas(preStore[i])) \cap Ids(store) = {}
            /\ response[i].success = TRUE
            /\ response[i].total_importado = Len(store) - Len(DeleteEntrada(preStore[i]))

C5_Witness ==
    \E i \in Invocations :
        /\ Succeeded(i)
        /\ alone[i]
        /\ Len(registros[i]) = 1200
        /\ Entradas(preStore[i]) # <<>>

\* C6 as stated: a failure after the delete and before the last insert, in a
\* run that is the store's only writer, leaves
\* fewer records of the category than before the run and fewer than intended.
C6_FewerThanBoth ==
    \A i \in Invocations :
        (pc[i] = "done" /\ alone[i] /\ FailedBatches(i) # {}) =>
            /\ Len(Entradas(store)) < Len(Entradas(preStore[i]))
            /\ Len(Entradas(store)) < Len(registros[i])

\* C6 amended: a failure of the insert of batch k, in a run that is the
\* store's only writer, leaves exactly the
\* (k-1)*500 records of the earlier batches, which is fewer than intended,
\* and none of the category's records from before the run; that is fewer
\* than before the run only when the store held more than (k-1)*500 of them.
C6_FewerThanIntended ==
    \A i \in Invocations :
        \A k \in FailedBatches(i) :
            alone[i] =>
            /\ pc[i] = "done"
            /\ Len(Entradas(store)) = (k - 1) * 500
            /\ Len(Entradas(store)) < Len(registros[i])
            /\ Ids(Entradas(preStore[i])) \cap Ids(store) = {}
            /\ (Len(Entradas(store)) < Len(Entradas(preStore[i])))
                   <=> ((k - 1) * 500 < Len(Entradas(preStore[i])))

C6_Witness ==
    \E i \in Invocations :
        /\ pc[i] = "done"
        /\ alone[i]
        /\ FailedBatches(i) = {2}
        /\ Entradas(preStore[i]) # <<>>
        /\ Len(Entradas(store)) > Len(Entradas(preStore[i]))

\* C8: a run whose source yields no record still issues the delete, issues no
\* insert, and returns success with a total of 0.
C8_EmptyRunDeletes ==
    \A i \in Invocations :
        (FetchSucceeded(i) /\ Len(registros[i]) = 0) =>
            /\ Len(ops[i]) = 2
            /\ ops[i][2].op = "delete"
            /\ DeleteSucceeded(i) =>
                   /\ pc[i] = "done"
                   /\ alone[i] => store = DeleteEntrada(preStore[i])
                   /\ response[i] = SuccessResponse(0)

C8_Witness ==
    \E i \in Invocations :
        /\ Succeeded(i)
        /\ alone[i]
        /\ Len(values[i]) > 1
        /\ registros[i] = <<>>
        /\ Entradas(preStore[i]) # <<>>
        /\ response[i].total_importado = 0

---------------------------------------------------------------------------
(* Concurrent invocations: a request may arrive while others are running.  *)

FormEntradas(st) == SelectSeq(st, LAMBDA e : IsEntrada(e) /\ e.by = "form")

\* C7: when no two runs overlapped, every run succeeded and the store holds
\* no record of the category saved through the form, the category's
\* records in the store are the normalized records of one of the runs (the
\* last); two runs that overlap can both succeed and leave records that are
\* the normalized set of neither (C7_Witness).
C7_OnlyOverlapCorrupts ==
    (/\ \E i \in Invocations : Succeeded(i)
     /\ \A j \in Invocations : method[j] = "POST" => (Succeeded(j) /\ ~overlap[j])
     /\ FormEntradas(store) = <<>>)
    => \E i \in Invocations :
           Succeeded(i) /\ Recs(Entradas(store)) = registros[i]

C7_Witness ==
    \E i, j \in Invocations :
        /\ i # j
        /\ Succeeded(i) /\ Succeeded(j)
        /\ overlap[i] /\ overlap[j]
        /\ FormEntradas(store) = <<>>
        /\ Recs(Entradas(store)) # registros[i]
        /\ Recs(Entradas(store)) # registros[j]

---------------------------------------------------------------------------
(* The normalizer alone, applied to sheets of varied rows.                 *)

D_LeadingSpace == <<" ">> \o D_15_03_2024
D_TrailingSpace == D_15_03_2024 \o <<" ">>
D_Padded == <<" ", "\t">> \o D_15_03_2024 \o <<"\n">>
D_InnerSpace == <<"1", "5", "/", " ", "0", "3", "/", "2", "0", "2", "4">>
D_OneDigitDay == <<"5", "/", "0", "3", "/", "2", "0", "2", "4">>
D_TwoDigitYear == <<"1", "5", "/", "0", "3", "/", "2", "4">>
D_FiveDigitYear == D_15_03_2024 \o <<"0">>
D_Prefixed == <<"x">> \o D_15_03_2024
D_Dashes == <<"1", "5", "-", "0", "3", "-", "2", "0", "2", "4">>
D_99_99_9999 == <<"9", "9", "/", "9", "9", "/", "9", "9", "9", "9">>
D_Blank == <<" ", " ">>
D_31_02_2024 == <<"3", "1", "/", "0", "2", "/", "2", "0", "2", "4">>
D_29_02_2024 == <<"2", "9", "/", "0", "2", "/", "2", "0", "2", "4">>

D_TrailingCR == D_15_03_2024 \o <<"\r">>
D_LeadingNbsp == <<"U+00A0", "\f">> \o D_15_03_2024

DateCells ==
    {D_15_03_2024, D_LeadingSpace, D_TrailingSpace, D_Padded, D_InnerSpace,
     D_TrailingCR, D_LeadingNbsp,
     D_OneDigitDay, D_TwoDigitYear, D_FiveDigitYear, D_Prefixed, D_Dashes,
     D_Iso, D_99_99_9999, D_31_02_2024, D_29_02_2024, D_Blank, <<>>}

A_Text == <<"a", "b", "c">>
A_0_00 == <<"0", ",", "0", "0">>
A_Minus == <<"-", "5", ",", "5", "0">>
A_Reais == <<"R", "$", " ", "1", "5", "0", ",", "0", "0">>

A_1234_56 == <<"1", "2", "3", "4", ",", "5", "6">>
A_DotDecimal == <<"1", "2", "3", "4", ".", "5", "6">>

AmountCells ==
    {A_150_00, A_1_234_56, A_1234_56, A_DotDecimal, A_0, A_0_00, A_Text, A_Minus,
     A_Reais, <<>>, Undefined}
T_Blank == <<" ", " ">>
T_MensalidadePadded == <<" ">> \o T_Mensalidade \o <<" ">>

T_CRLF == <<"\r", "\n">>
T_MensalidadeCR == T_Mensalidade \o <<"\r">>

CategoriaCells ==
    {T_Mensalidade, T_MensalidadePadded, T_MensalidadeCR, <<>>, T_Blank, T_CRLF, Undefined}
ParcelaCells == {T_2_12, <<>>, T_Blank, T_CRLF, Undefined}
CellCounts == {10, 21, 22, 23}

NormRow(n, due, amount, pay) ==
    LET full == MkRow(n + 22, 0 :> T_Ana @@ 4 :> due @@ 5 :> pay @@ 14 :> amount)
    IN  SubSeq(full, 1, n)

\* Every due date with every amount on the rows of 22 cells; every due date
\* with the main amounts on the shorter and longer rows.
CoreAmounts == {A_150_00, A_0, A_Text, <<>>}

DueAmountRows ==
    {AbsentRow}
    \cup {NormRow(MinCells, due, amount, <<>>) : due \in DateCells, amount \in AmountCells}
    \cup {NormRow(n, due, amount, <<>>) :
            n \in CellCounts, due \in DateCells, amount \in CoreAmounts}

\* Section 8's scenario: a valid unpaid row, an amount "0", a row of 10 cells.
ScenarioSheet == <<Header, RowDue, RowZero, RowShort>>

\* A due date padded with white space, then one with white space inside.
PaddedSheet ==
    <<Header, NormRow(22, D_Padded, A_150_00, <<>>), NormRow(22, D_InnerSpace, A_150_00, <<>>)>>

\* A row of 22 cells with a sound due date and amount, and the given
\* payment-date, category, installment and discount cells.
DetailRow(pay, categoria, parcela, desconto) ==
    MkRow(MinCells, 0 :> T_Ana @@ 4 :> D_15_03_2024 @@ 5 :> pay @@ 11 :> categoria
                    @@ 13 :> parcela @@ 14 :> A_150_00 @@ 16 :> desconto)

PayRows == {DetailRow(pay, <<>>, <<>>, <<>>) : pay \in DateCells \cup {Undefined}}

NoteRows ==
    {DetailRow(<<>>, categoria, parcela, <<>>) :
        categoria \in CategoriaCells, parcela \in ParcelaCells}

DiscountRows == {DetailRow(<<>>, <<>>, <<>>, desconto) : desconto \in AmountCells}

NormRows == DueAmountRows \cup PayRows \cup NoteRows \cup DiscountRows

\* Sheets whose first row would pass every check of the loop, and a sheet
\* holding the same row twice.
FirstRowOnlySheet == <<RowDue>>
FirstRowSoundSheet == <<RowPaid, RowDue, RowZero, BigRow(7)>>
RepeatSheet == <<Header, RowDue, RowDue>>

NormSheets ==
    {ScenarioSheet, PaddedSheet, FirstRowOnlySheet, FirstRowSoundSheet, RepeatSheet} \cup {<<Header>> \o rs : rs \in SeqsUpTo(NormRows, MaxNormRows)}

InitNorm ==
    /\ store = <<>>
    /\ nextId = 1
    /\ pc = [i \in Invocations |-> IF i = 1 THEN "normalize" ELSE "idle"]
    /\ method = [i \in Invocations |-> ""]
    /\ values \in {[i \in Invocations |-> IF i = 1 THEN sheet ELSE <<>>] : sheet \in NormSheets}
    /\ registros = [i \in Invocations |-> <<>>]
    /\ batches = [i \in Invocations |-> <<>>]
    /\ lote = [i \in Invocations |-> 0]
    /\ response = [i \in Invocations |-> NoResponse]
    /\ linhas = [i \in Invocations |-> <<>>]
    /\ ops = [i \in Invocations |-> <<>>]
    /\ preStore = [i \in Invocations |-> <<>>]
    /\ overlap = [i \in Invocations |-> FALSE]
    /\ alone = [i \in Invocations |-> TRUE]
    /\ saves = 0

Normalize(i) ==
    /\ pc[i] = "normalize"
    /\ registros' = [registros EXCEPT ![i] = buildLancamentosEntrada(values[i])]
    /\ linhas' = [linhas EXCEPT ![i] = KeptPositions(values[i])]
    /\ pc' = [pc EXCEPT ![i] = "normalized"]
    /\ UNCHANGED <<store, nextId, method, values, batches, lote, response, ops,
                   preStore, overlap, alone, saves>>

NextNorm == \E i \in Invocations : Normalize(i)

SpecNorm == InitNorm /\ [][NextNorm]_vars

KeptSet(i) == {linhas[i][j] : j \in 1..Len(linhas[i])}

\* C9: a data row yields a record exactly when it has at least 22 cells, its
\* due-date cell parses and its amount cell parses to a non-zero value; the
\* scenario of three rows (valid and unpaid, amount "0", 10 cells) yields one
\* record, for the first row, with status "A Vencer".
C9_RowYieldsRecordIff ==
    \A i \in Invocations :
        pc[i] = "normalized" =>
            /\ Len(registros[i]) = Len(linhas[i])
            /\ Cardinality(KeptSet(i)) = Len(linhas[i])
            /\ \A p \in 2..Len(values[i]) :
                   p \in KeptSet(i) <=>
                       /\ Len(values[i][p]) >= 22
                       /\ parseDate(Cell(values[i][p], 4)) # Null
                       /\ parseCurrency(Cell(values[i][p], 14)) # Zero
            /\ values[i] = ScenarioSheet =>
                   /\ linhas[i] = <<2>>
                   /\ registros[i][1].status = "A Vencer"
                   /\ registros[i][1].valor = [neg |-> FALSE, units |-> 150, scale |-> 0]

C9_Witness ==
    \E i \in Invocations :
        /\ pc[i] = "normalized"
        /\ values[i] = ScenarioSheet
        /\ Len(registros[i]) = 1

\* C10 as stated: a row yields a record only when its due-date cell itself,
\* with nothing before or after, has the shape DD/MM/YYYY.
C10_ExactCellOnly ==
    \A i \in Invocations :
        pc[i] = "normalized" =>
            \A p \in KeptSet(i) : MatchesDate(Cell(values[i][p], 4))

\* C10 amended: a row yields a record only when its due-date cell, with the
\* white space at its two ends removed, has the shape DD/MM/YYYY; the
\* record's date is that text rearranged as YYYY-MM-DD.
C10_TrimmedCellOnly ==
    \A i \in Invocations :
        pc[i] = "normalized" =>
            \A j \in 1..Len(linhas[i]) :
                LET t == trim(Cell(values[i][linhas[i][j]], 4))
                IN  /\ MatchesDate(t)
                    /\ registros[i][j].data =
                           <<t[7], t[8], t[9], t[10], "-", t[4], t[5], "-", t[1], t[2]>>

C10_Witness ==
    \E i \in Invocations :
        /\ pc[i] = "normalized"
        /\ values[i] = PaddedSheet
        /\ linhas[i] = <<2>>

---------------------------------------------------------------------------
(* Calendar dates                                                          *)

IsLeapYear(y) == (y % 4 = 0 /\ y % 100 # 0) \/ y % 400 = 0

DaysInMonth(y, m) ==
    IF m \in {4, 6, 9, 11} THEN 30
    ELSE IF m = 2 THEN (IF IsLeapYear(y) THEN 29 ELSE 28)
    ELSE 31

\* d is YYYY-MM-DD and names a day of the calendar.
IsCalendarDate(d) ==
    /\ Len(d) = 10
    /\ \A i \in {1, 2, 3, 4, 6, 7, 9, 10} : d[i] \in Digits
    /\ d[5] = "-" /\ d[8] = "-"
    /\ LET y == DigitsToNat(SubSeq(d, 1, 4))
           m == DigitsToNat(SubSeq(d, 6, 7))
           day == DigitsToNat(SubSeq(d, 9, 10))
       IN  /\ m \in 1..12
           /\ day \in 1..DaysInMonth(y, m)

\* C11: every record that survives normalization has a due date that is
\* present and names a real day of the calendar, in the form YYYY-MM-DD.
C11_DueDateValid ==
    \A i \in Invocations :
        pc[i] = "normalized" =>
            \A j \in 1..Len(registros[i]) :
                /\ registros[i][j].data # Null
                /\ IsCalendarDate(registros[i][j].data)

---------------------------------------------------------------------------
(* Currency                                                                *)

Num(units, scale) == [neg |-> FALSE, units |-> units, scale |-> scale]

\* The rows of a sheet whose amount alone decides whether they yield a record.
SoundRows(i) ==
    {p \in 2..Len(values[i]) :
        Len(values[i][p]) >= MinCells /\ parseDate(Cell(values[i][p], 4)) # Null}

\* The record made from the row at position p.
RecordAt(i, p) == registros[i][CHOOSE j \in 1..Len(linhas[i]) : linhas[i][j] = p]

\* The amount of the row at position p parsed to this number; 0 shows as the
\* row yielding no record.
AmountIs(i, p, n) ==
    IF n = Zero THEN p \notin KeptSet(i)
    ELSE p \in KeptSet(i) /\ RecordAt(i, p).valor = n

\* C12 as stated: "1234,56", "1.234,56" and the already normalized "1234.56"
\* all parse to 1234.56; "", an absent cell and text without a number parse to 0.
C12_IdempotentOnDecimal ==
    \A i \in Invocations :
        pc[i] = "normalized" =>
            \A p \in SoundRows(i) :
                LET a == Cell(values[i][p], 14)
                IN  /\ a \in {A_1234_56, A_1_234_56, A_DotDecimal} => AmountIs(i, p, Num(123456, 2))
                    /\ a \in {<<>>, Undefined, A_Text} => AmountIs(i, p, Zero)

\* C12 amended: "1234,56" and "1.234,56" parse to 1234.56, and "", an absent
\* cell and text without a number parse to 0; "1234.56" parses to 123456,
\* its "." being removed as a thousands separator.
C12_DotIsThousands ==
    \A i \in Invocations :
        pc[i] = "normalized" =>
            \A p \in SoundRows(i) :
                LET a == Cell(values[i][p], 14)
                IN  /\ a \in {A_1234_56, A_1_234_56} => AmountIs(i, p, Num(123456, 2))
                    /\ a = A_DotDecimal => AmountIs(i, p, Num(123456, 0))
                    /\ a \in {<<>>, Undefined, A_Text} => AmountIs(i, p, Zero)

C12_Witness ==
    \E i \in Invocations :
        /\ pc[i] = "normalized"
        /\ Len(values[i]) = 2
        /\ Cell(values[i][2], 14) = A_1_234_56
        /\ Len(registros[i]) = 1
        /\ registros[i][1].valor = Num(123456, 2)

---------------------------------------------------------------------------
(* Status and payment date                                                 *)

\* The row the j-th record of invocation i was made from.
SourceRow(i, j) == values[i][linhas[i][j]]

\* C13: a record is "Pago" exactly when its row's payment-date cell parses
\* under the date rule and "A Vencer" otherwise, and its payment date is set
\* exactly when it is "Pago".
C13_PaidIffPaymentDate ==
    \A i \in Invocations :
        pc[i] = "normalized" =>
            \A j \in 1..Len(registros[i]) :
                LET r == registros[i][j]
                    parsed == parseDate(Cell(SourceRow(i, j), 5))
                IN  /\ r.status \in {"Pago", "A Vencer"}
                    /\ r.status = "Pago" <=> parsed # Null
                    /\ r.datapag # Null <=> r.status = "Pago"
                    /\ r.datapag = parsed

C13_Witness ==
    \E i \in Invocations :
        /\ pc[i] = "normalized"
        /\ Len(registros[i]) = 1
        /\ Cell(SourceRow(i, 1), 5) = D_Padded
        /\ registros[i][1].status = "Pago"
        /\ registros[i][1].datapag # Null

---------------------------------------------------------------------------
(* Notes of the records                                                    *)

\* The text of a cell with the white space at its ends removed; an absent
\* cell has none.
CellText(cell) == IF cell = Undefined THEN <<>> ELSE trim(cell)

T_Mensalidade_2_12 ==
    <<"M", "e", "n", "s", "a", "l", "i", "d", "a", "d", "e", " ", "/", " ", "2", "/", "1", "2">>

\* C14: a record's note is the category and installment texts joined with
\* " / " when both are non-empty, the one that is non-empty when only one is,
\* and null when neither is; it is never the empty text, also when a cell is
\* absent or holds only white space.
C14_NoteJoinWithFallback ==
    \A i \in Invocations :
        pc[i] = "normalized" =>
            \A j \in 1..Len(registros[i]) :
                LET r == registros[i][j]
                    categoria == CellText(Cell(SourceRow(i, j), 11))
                    parcela == CellText(Cell(SourceRow(i, j), 13))
                IN  /\ r.obs # <<>>
                    /\ categoria # <<>> /\ parcela # <<>> =>
                           r.obs = categoria \o <<" ", "/", " ">> \o parcela
                    /\ categoria # <<>> /\ parcela = <<>> => r.obs = categoria
                    /\ categoria = <<>> /\ parcela # <<>> => r.obs = parcela
                    /\ categoria = <<>> /\ parcela = <<>> => r.obs = Null
                    /\ categoria = T_Mensalidade /\ parcela = T_2_12 =>
                           r.obs = T_Mensalidade_2_12

C14_Witness ==
    \E i \in Invocations :
        /\ pc[i] = "normalized"
        /\ Len(registros[i]) = 1
        /\ Cell(SourceRow(i, 1), 11) = T_Blank
        /\ Cell(SourceRow(i, 1), 13) = Undefined
        /\ registros[i][1].obs = Null

\* A record whose note joins a padded category with an installment.
C14_JoinedReached ==
    \E i \in Invocations :
        /\ pc[i] = "normalized"
        /\ Len(registros[i]) = 1
        /\ Cell(SourceRow(i, 1), 11) = T_MensalidadePadded
        /\ registros[i][1].obs = T_Mensalidade_2_12

---------------------------------------------------------------------------
(* The punctual discount                                                   *)

\* C15: a record carries the punctual discount exactly when its row's
\* discount cell parses to a number other than 0, the field then holding that
\* number; no record carries the field with the value 0.
C15_DiscountIffNonZero ==
    \A i \in Invocations :
        pc[i] = "normalized" =>
            \A j \in 1..Len(registros[i]) :
                LET r == registros[i][j]
                    parsed == parseCurrency(Cell(SourceRow(i, j), 16))
                IN  /\ "desc_pontual" \in DOMAIN r <=> parsed # Zero
                    /\ "desc_pontual" \in DOMAIN r =>
                           r.desc_pontual = parsed /\ r.desc_pontual # Zero

\* A record made from a row whose discount cell is "0,00" carries no discount.
C15_Witness ==
    \E i \in Invocations :
        /\ pc[i] = "normalized"
        /\ Len(registros[i]) = 1
        /\ Cell(SourceRow(i, 1), 16) = A_0_00
        /\ "desc_pontual" \notin DOMAIN registros[i][1]

\* A record made from a row whose discount cell is "150,00" carries 150.
C15_AttachedReached ==
    \E i \in Invocations :
        /\ pc[i] = "normalized"
        /\ Len(registros[i]) = 1
        /\ Cell(SourceRow(i, 1), 16) = A_150_00
        /\ "desc_pontual" \in DOMAIN registros[i][1]
        /\ registros[i][1].desc_pontual = Num(150, 0)

---------------------------------------------------------------------------
(* Source rows of the records                                              *)

\* C16: every record comes from a row of its own at position 2 or later, the
\* records follow the order of their rows, and the first row yields no record
\* even when its cells would pass every check.
C16_RecordsFollowRows ==
    \A i \in Invocations :
        pc[i] = "normalized" =>
            /\ Len(linhas[i]) = Len(registros[i])
            /\ \A j \in 1..Len(registros[i]) :
                   /\ linhas[i][j] \in 2..Len(values[i])
                   /\ registros[i][j] = BuildRegistro(SourceRow(i, j))
                   /\ \A k \in 1..(j - 1) : linhas[i][k] < linhas[i][j]
            /\ values[i] = FirstRowOnlySheet => registros[i] = <<>>
            /\ values[i] = FirstRowSoundSheet =>
                   /\ Len(registros[i]) = 2
                   /\ registros[i][1].valor = Num(150, 0)
                   /\ registros[i][2].valor = Num(7, 0)
            /\ values[i] = RepeatSheet => Len(registros[i]) = 2

C16_Witness ==
    \E i \in Invocations :
        /\ pc[i] = "normalized"
        /\ values[i] = FirstRowSoundSheet
        /\ RowKept(values[i][1])
        /\ linhas[i] = <<2, 4>>

---------------------------------------------------------------------------
(* Methods                                                                 *)

\* C17: a request whose method is neither POST nor OPTIONS is answered
\* "Method not allowed" with status 405, an OPTIONS request is answered "ok",
\* and neither issues the fetch, the delete or an insert: the store, when no
\* other writer touched it, is as the request found it.
C17_NonPostRejected ==
    \A i \in Invocations :
        method[i] \notin {"", "POST"} =>
            /\ pc[i] = "done"
            /\ ops[i] = <<>>
            /\ alone[i] => store = preStore[i]
            /\ response[i] = IF method[i] = "OPTIONS" THEN PreflightResponse
                             ELSE MethodNotAllowed
            /\ method[i] # "OPTIONS" =>
                   /\ response[i].status = 405
                   /\ response[i].success = FALSE
                   /\ response[i].message = "Method not allowed"

C17_Witness ==
    \E i \in Invocations :
        /\ method[i] = "DELETE"
        /\ pc[i] = "done"
        /\ alone[i]
        /\ response[i].status = 405
        /\ Entradas(store) # <<>>

\* A pre-flight request has been answered.
C17_PreflightReached ==
    \E i \in Invocations :
        /\ method[i] = "OPTIONS"
        /\ response[i] = PreflightResponse

---------------------------------------------------------------------------
(* Order of the external operations                                        *)

\* The calls of invocation i are the fetch, then the delete, then the inserts
\* of batches 1, 2, ... in turn; every call but the last succeeded, and only the
\* last can be awaited.
OrderedOps(i) ==
    \A k \in 1..Len(ops[i]) :
        /\ ops[i][k].op = (IF k = 1 THEN "fetch" ELSE IF k = 2 THEN "delete" ELSE "insert")
        /\ ops[i][k].n = (IF k <= 2 THEN 0 ELSE k - 2)
        /\ k < Len(ops[i]) => ops[i][k].res = "ok"
        /\ ops[i][k].res = "pending" => k = Len(ops[i]) /\ Running(i)

\* An invocation has answered exactly when it has ended; a POST issued the
\* fetch, and its answer is a failure exactly when its last call failed.
AnsweredWhenEnded(i) ==
    /\ response[i] # NoResponse <=> pc[i] = "done"
    /\ method[i] = "POST" => Len(ops[i]) >= 1
    /\ pc[i] = "done" /\ method[i] = "POST" =>
           /\ ops[i][Len(ops[i])].res # "pending"
           /\ IsFailure(response[i]) <=> ops[i][Len(ops[i])].res # "ok"

\* Once an invocation has answered, its answer stays and it issues no call.
AnswersOnce(i) ==
    response[i] # NoResponse => response'[i] = response[i] /\ ops'[i] = ops[i]

\* A step adds at most one call to an invocation's calls and never rewrites
\* the calls that have ended.
NoRetry(i) ==
    /\ Len(ops'[i]) \in {Len(ops[i]), Len(ops[i]) + 1}
    /\ \A k \in 1..Len(ops[i]) : ops[i][k].res # "pending" => ops'[i][k] = ops[i][k]

\* C18: within one invocation the fetch is issued once, the delete at most
\* once and only after the fetch succeeded, each batch insert at most once and
\* only after the delete and every earlier insert succeeded; after the first
\* failure no call is issued, and the invocation answers once.
C18_StrictOrderNoRetry ==
    /\ [](\A i \in Invocations : OrderedOps(i) /\ AnsweredWhenEnded(i))
    /\ [][\A i \in Invocations : AnswersOnce(i) /\ NoRetry(i)]_vars

\* The second batch insert failed after the fetch, the delete and the first
\* insert succeeded, and the invocation has answered with the failure.
C18_Witness ==
    \E i \in Invocations :
        /\ pc[i] = "done"
        /\ Len(ops[i]) = 4
        /\ ops[i][3].res = "ok"
        /\ ops[i][4].res = "error"
        /\ IsFailure(response[i])

---------------------------------------------------------------------------
(* What the delete and the inserts touch                                   *)

EntriesOf(st) == {st[j] : j \in 1..Len(st)}
Others(st) == SelectSeq(st, NotEntrada)

\* The entries of st whose identity st2 does not hold.
Missing(st, st2) ==
    LET ids == Ids(st2)
        Gone(e) == e.id \notin ids
    IN  SelectSeq(st, Gone)

\* The entries of other kinds are where and what they were; the form may
\* have added one after them.
OthersUntouched ==
    store' # store =>
        /\ Len(Others(store')) >= Len(Others(store))
        /\ SubSeq(Others(store'), 1, Len(Others(store))) = Others(store)

\* An entry added by a step that removes none was added by the form, or is an
\* Entrada written by the import.
AddsOnlyEntrada ==
    store' # store =>
        LET added == Missing(store', store)
        IN  \A j \in 1..Len(added) :
                added[j].by = "form" \/ (IsEntrada(added[j]) /\ added[j].by = "import")

\* A step that removes an entry removes every Entrada.
RemovesEveryEntrada ==
    store' # store =>
        (Missing(store, store') # <<>> => Entradas(store') = <<>>)

\* Every entry a step removes was written by an earlier run of the import.
RemovesOnlyImported ==
    store' # store =>
        LET removed == Missing(store, store')
        IN  \A j \in 1..Len(removed) : removed[j].by = "import"

\* Every entry written by the import is an Entrada.
ImportedAreEntrada ==
    \A j \in 1..Len(store) : store[j].by = "import" => IsEntrada(store[j])

\* C19 as stated: entries of other kinds are never deleted or modified, every
\* entry the import inserts is an Entrada, and the delete removes exactly what
\* earlier runs wrote.
C19_DeletesOnlyOwnWrites ==
    /\ []ImportedAreEntrada
    /\ [][OthersUntouched /\ AddsOnlyEntrada /\ RemovesEveryEntrada /\ RemovesOnlyImported]_vars

\* C19 amended: entries of other kinds are never deleted or modified, every
\* entry the import inserts is an Entrada, and the delete removes every
\* Entrada: all that earlier runs wrote, and the Entrada entries written
\* through the form as well.
C19_DeletesWholeCategory ==
    /\ []ImportedAreEntrada
    /\ [][OthersUntouched /\ AddsOnlyEntrada /\ RemovesEveryEntrada]_vars

\* A second run has replaced what the first run wrote, the first run having
\* removed an Entrada written through the form; the entry of another kind is
\* still there.
C19_Witness ==
    \E i, j \in Invocations :
        /\ i # j
        /\ Succeeded(i) /\ Succeeded(j)
        /\ \E e \in EntriesOf(preStore[i]) : IsEntrada(e) /\ e.by = "form"
        /\ \E e \in EntriesOf(preStore[j]) : e.by = "import" /\ e \notin EntriesOf(store)
        /\ Others(store) = Others(preStore[i])
        /\ Others(store) # <<>>
        /\ Entradas(store) # <<>>
        /\ \A e \in EntriesOf(store) : IsEntrada(e) => e.by = "import"

=============================================================================
